---- MODULE Spec2Model ----
(***************************************************************************)
(* A model of the BOT GPT backend: the RAG helpers of rag_service.py       *)
(* (chunk_text, retrieve_relevant_chunks), the helpers of llm_service.py   *)
(* and the request handlers of main.py acting on the two MongoDB           *)
(* collections reached through database.py.                                *)
(*                                                                         *)
(* Five specifications share the module:                                   *)
(*   SpecChunk    - chunk_text applied to bounded texts and chunk sizes    *)
(*   SpecRetrieve - retrieve_relevant_chunks applied to bounded            *)
(*                  similarity vectors and top_k values                    *)
(*   SpecContext  - prepare_context applied to bounded message sequences   *)
(*   SpecPrompt   - build_rag_prompt applied to bounded retrieved chunks    *)
(*   Spec         - the request handlers, interleaved at their awaits      *)
(***************************************************************************)
EXTENDS Integers, Sequences, FiniteSets, TLC

VARIABLES chunker, retriever, windower, prompter, convs, docs, procs

vars == <<chunker, retriever, windower, prompter, convs, docs, procs>>

(***************************************************************************)
(* Bounds of the model                                                     *)
(***************************************************************************)
MaxTextLen == 5
MaxChunkSize == 5
MaxChunks == 5
MaxTopK == 3
MaxMessages == 3
MaxHistory == 3
MaxRetrieved == 3

(***************************************************************************)
(* Program constants                                                       *)
(***************************************************************************)
CHUNK_SIZE == 500
TOP_K == 3

(***************************************************************************)
(* Python values: an optional integer is the empty set (None) or {k}       *)
(***************************************************************************)
None == {}
Some(k) == {k}
Val(x) == CHOOSE k \in x : TRUE

\* Python's `x or d` on an optional integer: None and 0 are falsy
OrDefault(x, d) == IF x = None \/ x = Some(0) THEN d ELSE Val(x)

Min(a, b) == IF a < b THEN a ELSE b
Max(a, b) == IF a > b THEN a ELSE b

(***************************************************************************)
(* Texts are sequences of characters                                       *)
(***************************************************************************)
Whitespace == {" ", "\n"}
Letters == {"a", "b"}
Chars == Letters \cup Whitespace

SeqsUpTo(S, n) == UNION {[1..k -> S] : k \in 0..n}

\* str.split(): the maximal runs of non-whitespace characters, left to right
WordStarts(text) ==
    {i \in 1..Len(text) :
        /\ text[i] \notin Whitespace
        /\ IF i = 1 THEN TRUE ELSE text[i - 1] \in Whitespace}

WordEnds(text) ==
    {i \in 1..Len(text) :
        /\ text[i] \notin Whitespace
        /\ IF i = Len(text) THEN TRUE ELSE text[i + 1] \in Whitespace}

\* the k-th smallest element of a set of numbers
Kth(S, k) == CHOOSE x \in S : Cardinality({y \in S : y < x}) = k - 1

split(text) ==
    LET starts == WordStarts(text)
        ends == WordEnds(text)
    IN  [k \in 1..Cardinality(starts) |-> SubSeq(text, Kth(starts, k), Kth(ends, k))]

\* " ".join(words)
RECURSIVE join(_)
join(words) ==
    IF words = <<>> THEN <<>>
    ELSE IF Len(words) = 1 THEN words[1]
    ELSE words[1] \o <<" ">> \o join(Tail(words))

(***************************************************************************)
(* RAGService.chunk_text                                                   *)
(***************************************************************************)
\* variant of word_length that forgets the separator
word_length_nospace(word) == Len(word)

\* word_length = len(word) + 1  # +1 for space
word_length(word) == Len(word) + 1

\* variant of FlushChunk that forgets the final partial chunk
FlushChunk_dropped(chunks, current_chunk) == chunks

\* variant of FlushChunk that forgets the `if current_chunk` test
FlushChunk_always(chunks, current_chunk) == Append(chunks, join(current_chunk))

\* if current_chunk: chunks.append(" ".join(current_chunk))
FlushChunk(chunks, current_chunk) ==
    IF current_chunk # <<>> THEN Append(chunks, join(current_chunk)) ELSE chunks

\* the for loop over words, then the final flush
RECURSIVE ChunkLoop(_, _, _, _, _, _)
ChunkLoop(words, i, chunk_size, chunks, current_chunk, current_length) ==
    IF i > Len(words)
    THEN FlushChunk(chunks, current_chunk)
    ELSE LET word == words[i]
             wl == word_length(word)
         IN  IF current_length + wl > chunk_size /\ current_chunk # <<>>
             THEN ChunkLoop(words, i + 1, chunk_size,
                            Append(chunks, join(current_chunk)), <<word>>, wl)
             ELSE ChunkLoop(words, i + 1, chunk_size,
                            chunks, Append(current_chunk, word), current_length + wl)

chunk_text(text, chunk_size) ==
    ChunkLoop(split(text), 1, OrDefault(chunk_size, CHUNK_SIZE), <<>>, <<>>, 0)

(***************************************************************************)
(* RAGService.retrieve_relevant_chunks                                     *)
(*                                                                         *)
(* The similarities of the chunks to the query come from the embedding     *)
(* model; they are an input here, in tenths (9 stands for 0.9).  Chunks    *)
(* are named by their zero-based position in the document.                 *)
(***************************************************************************)
Scores == {1, 3, 5, 9}

\* np.argsort(similarities): the indices in ascending order of similarity.
\* The default kind is not a stable sort, so equal similarities may come
\* out in any order: the set of all orders the call may return.
RECURSIVE ArgSortsFrom(_, _)
ArgSortsFrom(sims, remaining) ==
    IF remaining = {} THEN {<<>>}
    ELSE LET least == CHOOSE i \in remaining : \A j \in remaining : sims[i] <= sims[j]
             cands == {i \in remaining : sims[i] = sims[least]}
         IN  UNION {{<<i>> \o s : s \in ArgSortsFrom(sims, remaining \ {i})} : i \in cands}

argsort(sims) == ArgSortsFrom(sims, 1..Len(sims))

\* Python's a[start:] for any integer start
SliceFrom(a, start) ==
    LET n == Len(a)
        first == IF start < 0 THEN Max(n + start, 0) ELSE Min(start, n)
    IN  SubSeq(a, first + 1, n)

\* Python's a[::-1]
Reverse(a) == [i \in 1..Len(a) |-> a[Len(a) + 1 - i]]

\* variant of top_indices without the [::-1]
top_indices_unreversed(order, top_k) == SliceFrom(order, -top_k)

\* top_indices = np.argsort(similarities)[-top_k:][::-1]
top_indices(order, top_k) == Reverse(SliceFrom(order, -top_k))

\* cosine_similarity([query_embedding], chunk_embeddings) rejects the
\* one-dimensional array that np.array([]) is: it raises ValueError
cosine_similarity_raises(sims) == Len(sims) = 0

\* the results list, for one order argsort returned
retrieve_results(sims, top_k, order) ==
    LET idx == top_indices(order, OrDefault(top_k, TOP_K))
    IN  [k \in 1..Len(idx) |-> [chunk_id |-> idx[k] - 1, score |-> sims[idx[k]]]]

\* every outcome of retrieve_relevant_chunks(query, document_chunks, top_k)
retrieve_relevant_chunks(sims, top_k) ==
    IF cosine_similarity_raises(sims)
    THEN {[raised |-> TRUE, results |-> <<>>]}
    ELSE {[raised |-> FALSE, results |-> retrieve_results(sims, top_k, order)] :
            order \in argsort(sims)}

(***************************************************************************)
(* SpecChunk: chunk_text on every bounded input                            *)
(***************************************************************************)
ChunkSizes == {None} \cup {Some(k) : k \in 0..MaxChunkSize}
Texts == SeqsUpTo(Chars, MaxTextLen)

StoreIdle == convs = <<>> /\ docs = <<>> /\ procs = <<>>
RetrieverIdle == retriever = [pc |-> "off", sims |-> <<>>, top_k |-> None,
                              raised |-> FALSE, results |-> <<>>]
ChunkerIdle == chunker = [pc |-> "off", text |-> <<>>, chunk_size |-> None, chunks |-> <<>>]
WindowerIdle == windower = [pc |-> "off", messages |-> <<>>, max_history |-> 0,
                            context |-> <<>>]
PrompterIdle == prompter = [pc |-> "off", query |-> "", retrieved_chunks |-> <<>>,
                            prompt |-> <<>>]

\* the scenario of the design document: chunk_size 20 on this text
QuickBrownFox ==
    <<"t", "h", "e", " ", "q", "u", "i", "c", "k", " ", "b", "r", "o", "w", "n", " ",
      "f", "o", "x", " ", "j", "u", "m", "p", "s", " ", "o", "v", "e", "r">>
ChunkInputs ==
    {[text |-> text, chunk_size |-> cs] : text \in Texts, cs \in ChunkSizes}
        \cup {[text |-> QuickBrownFox, chunk_size |-> Some(20)]}

InitChunk ==
    /\ \E in \in ChunkInputs :
          chunker = [pc |-> "call", text |-> in.text, chunk_size |-> in.chunk_size,
                     chunks |-> <<>>]
    /\ RetrieverIdle
    /\ WindowerIdle
    /\ PrompterIdle
    /\ StoreIdle

ChunkText ==
    /\ chunker.pc = "call"
    /\ chunker' = [chunker EXCEPT !.pc = "done",
                                  !.chunks = chunk_text(chunker.text, chunker.chunk_size)]
    /\ UNCHANGED <<retriever, windower, prompter, convs, docs, procs>>

NextChunk == ChunkText

SpecChunk == InitChunk /\ [][NextChunk]_vars

(***************************************************************************)
(* SpecRetrieve: retrieve_relevant_chunks on every bounded input           *)
(***************************************************************************)
TopKs == {None} \cup {Some(k) : k \in (0 - 2)..MaxTopK}
Sims == SeqsUpTo(Scores, MaxChunks)

InitRetrieve ==
    /\ \E sims \in Sims, k \in TopKs :
          retriever = [pc |-> "call", sims |-> sims, top_k |-> k,
                       raised |-> FALSE, results |-> <<>>]
    /\ ChunkerIdle
    /\ WindowerIdle
    /\ PrompterIdle
    /\ StoreIdle

Retrieve ==
    /\ retriever.pc = "call"
    /\ \E out \in retrieve_relevant_chunks(retriever.sims, retriever.top_k) :
          retriever' = [retriever EXCEPT !.pc = "done",
                                         !.raised = out.raised,
                                         !.results = out.results]
    /\ UNCHANGED <<chunker, windower, prompter, convs, docs, procs>>

NextRetrieve == Retrieve

SpecRetrieve == InitRetrieve /\ [][NextRetrieve]_vars

(***************************************************************************)
(* LLMService helpers                                                      *)
(***************************************************************************)
MAX_HISTORY == 10

\* count_tokens: len(text) // 4
count_tokens(text) == Len(text) \div 4

\* prepare_context: messages[-max_history:] if len(messages) > max_history
\* else messages, reduced to role and content
prepare_context(messages, max_history) ==
    LET recent == IF Len(messages) > max_history
                  THEN SliceFrom(messages, -max_history)
                  ELSE messages
    IN  [i \in 1..Len(recent) |-> [role |-> recent[i].role, content |-> recent[i].content]]

(***************************************************************************)
(* The collections and their repositories (database.py).  A collection is  *)
(* a function from the ids of its stored documents.  Every request mints   *)
(* its uuid4 ids from its own number, so ids are never reused.             *)
(***************************************************************************)
RECURSIVE SumTokens(_)
SumTokens(messages) ==
    IF messages = <<>> THEN 0 ELSE messages[1].tokens + SumTokens(Tail(messages))

Without(coll, id) == [c \in DOMAIN coll \ {id} |-> coll[c]]

\* ConversationRepo.create / DocumentRepo.create: insert_one
RepoCreate(coll, id, data) == coll @@ (id :> data)

\* ConversationRepo.get_by_id / DocumentRepo.get_by_id: find_one
RepoGetById(coll, id) == IF id \in DOMAIN coll THEN {coll[id]} ELSE None

\* variant of RepoAddMessage without the $inc
RepoAddMessage_noinc(cs, conversation_id, message) ==
    IF conversation_id \in DOMAIN cs
    THEN [cs EXCEPT ![conversation_id].messages = Append(@, message)]
    ELSE cs

\* variant of RepoAddMessage that puts the message at the head of the list
RepoAddMessage_prepend(cs, conversation_id, message) ==
    IF conversation_id \in DOMAIN cs
    THEN [cs EXCEPT ![conversation_id].messages = <<message>> \o @,
                    ![conversation_id].total_tokens = @ + message.tokens]
    ELSE cs

\* variant of RepoAddMessage whose update_one is an upsert
RepoAddMessage_upsert(cs, conversation_id, message) ==
    IF conversation_id \in DOMAIN cs
    THEN [cs EXCEPT ![conversation_id].messages = Append(@, message),
                    ![conversation_id].total_tokens = @ + message.tokens]
    ELSE cs @@ (conversation_id :> [mode |-> "open_chat", document_id |-> 0,
                                    messages |-> <<message>>,
                                    total_tokens |-> message.tokens])

\* ConversationRepo.add_message: one update_one with $push and $inc; a
\* filter that matches nothing changes nothing
RepoAddMessage(cs, conversation_id, message) ==
    IF conversation_id \in DOMAIN cs
    THEN [cs EXCEPT ![conversation_id].messages = Append(@, message),
                    ![conversation_id].total_tokens = @ + message.tokens]
    ELSE cs

\* ConversationRepo.delete / DocumentRepo.delete: delete_one
RepoDelete(coll, id) == Without(coll, id)

(***************************************************************************)
(* Requests (main.py).  Request p is handled by process p; its locals are  *)
(* the fields of procs[p].  A handler is cut into steps at its awaits.     *)
(***************************************************************************)
MaxReqs == 4

Procs == 1..MaxReqs
Modes == {"open_chat", "rag"}
Contents == {<<"h", "e", "l", "l", "o">>}
RespTokens == {7}
ContentTypes == {"text/plain", "application/pdf", "image/png"}
LongWord == [i \in 1..CHUNK_SIZE |-> "a"]
UploadTexts == {<<>>, LongWord \o <<"\n", "b">>}

\* the locals of a request that has not started, or has returned
NoLocals == [mode |-> "none", content |-> <<>>, conversation |-> None,
             document |-> None, user_message |-> None, context |-> <<>>,
             retrieved |-> <<>>, response |-> None]

IdleProc == [pc |-> "idle", kind |-> "none", status |-> 0, error |-> "none",
             conversation_id |-> 0, document_id |-> 0, locals |-> NoLocals]

Init ==
    /\ convs = <<>>
    /\ docs = <<>>
    /\ procs = [p \in Procs |-> IdleProc]
    /\ ChunkerIdle
    /\ RetrieverIdle
    /\ WindowerIdle
    /\ PrompterIdle

\* requests arrive in the order of their numbers
CanStart(p) ==
    /\ procs[p].pc = "idle"
    /\ IF p = 1 THEN TRUE ELSE procs[p - 1].pc # "idle"

\* the ids a client can name: those minted by earlier requests
ConversationIds == {q \in Procs : procs[q].kind = "create"}
DocumentIds == {q \in Procs : procs[q].kind = "upload"}

\* the handler returns (status 200) or raises HTTPException (400, 404, 500)
Finish(q, p, status, error) ==
    [q EXCEPT ![p].pc = "done", ![p].status = status, ![p].error = error,
              ![p].locals = NoLocals]

UserMessage(p, content) ==
    [role |-> "user", content |-> content, tokens |-> count_tokens(content),
     req |-> p, retrieved_chunks |-> <<>>]

AssistantMessage(p, response, retrieved) ==
    [role |-> "assistant", content |-> <<"o", "k">>, tokens |-> response.tokens,
     req |-> p, retrieved_chunks |-> retrieved]

\* the chunk ids retrieve_relevant_chunks may return for a stored document
\* and a query, over every similarity vector the embeddings may give
RetrievedIds(document) ==
    LET n == Len(document.chunks)
        outs == UNION {retrieve_relevant_chunks(sims, None) : sims \in [1..n -> Scores]}
    IN  {[k \in 1..Len(out.results) |->
             document.chunks[out.results[k].chunk_id + 1].chunk_id] :
            out \in {o \in outs : ~o.raised}}

\* the RAG branch up to the generation call: DocumentRepo.get_by_id,
\* retrieve_relevant_chunks (which may raise), build_rag_prompt
GetDocument(q, p, next) ==
    LET document == RepoGetById(docs, q[p].document_id)
    IN  IF document = None
        THEN procs' = Finish(q, p, 404, "document_not_found")
        ELSE IF cosine_similarity_raises(Val(document).chunks)
        THEN procs' = Finish(q, p, 500, "retrieval")
        ELSE \E ids \in RetrievedIds(Val(document)) :
                procs' = [q EXCEPT ![p].pc = next,
                                   ![p].locals.document = document,
                                   ![p].locals.retrieved = ids]

\* ---- create_conversation -------------------------------------------------
\* validation, the conversation object and the first message; in RAG mode
\* the document is fetched and its chunks retrieved
CreateStart(p) ==
    /\ CanStart(p)
    /\ \E mode \in Modes, did \in {0} \cup DocumentIds, content \in Contents :
          LET q == [procs EXCEPT ![p].kind = "create",
                                 ![p].document_id = did,
                                 ![p].conversation_id = p,
                                 ![p].locals.mode = mode,
                                 ![p].locals.content = content,
                                 ![p].locals.user_message = {UserMessage(p, content)}]
          IN  IF mode = "rag" /\ did = 0
              THEN procs' = Finish(q, p, 400, "validation")
              ELSE IF mode = "open_chat"
              THEN procs' = [q EXCEPT ![p].pc = "create_generate"]
              ELSE GetDocument(q, p, "create_generate")
    /\ UNCHANGED <<convs, docs, chunker, retriever, windower, prompter>>

\* variant of CreateGenerate that stores the conversation, with its first
\* message, when the generation call fails
CreateGenerate_saves_on_failure(p) ==
    /\ procs[p].pc = "create_generate"
    /\ \/ /\ procs' = Finish(procs, p, 500, "generation")
          /\ convs' = RepoCreate(convs, procs[p].conversation_id,
                         [mode |-> procs[p].locals.mode,
                          document_id |-> procs[p].document_id,
                          messages |-> <<Val(procs[p].locals.user_message)>>,
                          total_tokens |-> Val(procs[p].locals.user_message).tokens])
       \/ /\ \E t \in RespTokens :
                procs' = [procs EXCEPT ![p].pc = "create_save",
                                       ![p].locals.response = {[tokens |-> t]}]
          /\ UNCHANGED convs
    /\ UNCHANGED <<docs, chunker, retriever, windower, prompter>>

\* llm_service.generate_response: a response, or an exception turned into 500
CreateGenerate(p) ==
    /\ procs[p].pc = "create_generate"
    /\ \/ procs' = Finish(procs, p, 500, "generation")
       \/ \E t \in RespTokens :
             procs' = [procs EXCEPT ![p].pc = "create_save",
                                    ![p].locals.response = {[tokens |-> t]}]
    /\ UNCHANGED <<convs, docs, chunker, retriever, windower, prompter>>

\* variant of CreateSave that stores the conversation without its document_id
CreateSave_without_document_id(p) ==
    /\ procs[p].pc = "create_save"
    /\ LET user_message == Val(procs[p].locals.user_message)
           assistant_message == AssistantMessage(p, Val(procs[p].locals.response),
                                                 procs[p].locals.retrieved)
       IN  convs' = RepoCreate(convs, procs[p].conversation_id,
                       [mode |-> procs[p].locals.mode,
                        document_id |-> 0,
                        messages |-> <<user_message, assistant_message>>,
                        total_tokens |-> user_message.tokens + assistant_message.tokens])
    /\ procs' = Finish(procs, p, 200, "none")
    /\ UNCHANGED <<docs, chunker, retriever, windower, prompter>>

\* conversation.messages, conversation.total_tokens, ConversationRepo.create
CreateSave(p) ==
    /\ procs[p].pc = "create_save"
    /\ LET user_message == Val(procs[p].locals.user_message)
           assistant_message == AssistantMessage(p, Val(procs[p].locals.response),
                                                 procs[p].locals.retrieved)
       IN  convs' = RepoCreate(convs, procs[p].conversation_id,
                       [mode |-> procs[p].locals.mode,
                        document_id |-> procs[p].document_id,
                        messages |-> <<user_message, assistant_message>>,
                        total_tokens |-> user_message.tokens + assistant_message.tokens])
    /\ procs' = Finish(procs, p, 200, "none")
    /\ UNCHANGED <<docs, chunker, retriever, windower, prompter>>

\* ---- add_message ---------------------------------------------------------
\* ConversationRepo.get_by_id and the user message
AddStart(p) ==
    /\ CanStart(p)
    /\ \E cid \in ConversationIds, content \in Contents :
          LET conversation == RepoGetById(convs, cid)
              q == [procs EXCEPT ![p].kind = "add", ![p].conversation_id = cid]
          IN  procs' = IF conversation = None
                       THEN Finish(q, p, 404, "conversation_not_found")
                       ELSE [q EXCEPT ![p].pc = "add_user_message",
                                      ![p].document_id = Val(conversation).document_id,
                                      ![p].locals.mode = Val(conversation).mode,
                                      ![p].locals.content = content,
                                      ![p].locals.conversation = conversation,
                                      ![p].locals.user_message = {UserMessage(p, content)}]
    /\ UNCHANGED <<convs, docs, chunker, retriever, windower, prompter>>

\* variant of AddUserMessage that writes back the conversation it read
\* (read-modify-write) instead of the atomic $push/$inc
AddUserMessage_rmw(p) ==
    /\ procs[p].pc = "add_user_message"
    /\ LET user_message == Val(procs[p].locals.user_message)
           conversation == Val(procs[p].locals.conversation)
           all_messages == conversation.messages \o <<user_message>>
           cid == procs[p].conversation_id
       IN  /\ convs' = IF cid \in DOMAIN convs
                       THEN [convs EXCEPT ![cid].messages = all_messages,
                                          ![cid].total_tokens =
                                              conversation.total_tokens + user_message.tokens]
                       ELSE convs
           /\ procs' = [procs EXCEPT
                          ![p].locals.context = prepare_context(all_messages, MAX_HISTORY),
                          ![p].pc = IF conversation.mode = "open_chat"
                                    THEN "add_generate" ELSE "add_get_document"]
    /\ UNCHANGED <<docs, chunker, retriever, windower, prompter>>

\* ConversationRepo.add_message(user_message), then the context from the
\* conversation as it was read plus the user message
AddUserMessage(p) ==
    /\ procs[p].pc = "add_user_message"
    /\ LET user_message == Val(procs[p].locals.user_message)
           conversation == Val(procs[p].locals.conversation)
           all_messages == conversation.messages \o <<user_message>>
       IN  /\ convs' = RepoAddMessage(convs, procs[p].conversation_id, user_message)
           /\ procs' = [procs EXCEPT
                          ![p].locals.context = prepare_context(all_messages, MAX_HISTORY),
                          ![p].pc = IF conversation.mode = "open_chat"
                                    THEN "add_generate" ELSE "add_get_document"]
    /\ UNCHANGED <<docs, chunker, retriever, windower, prompter>>

AddGetDocument(p) ==
    /\ procs[p].pc = "add_get_document"
    /\ GetDocument(procs, p, "add_generate")
    /\ UNCHANGED <<convs, docs, chunker, retriever, windower, prompter>>

AddGenerate(p) ==
    /\ procs[p].pc = "add_generate"
    /\ \/ procs' = Finish(procs, p, 500, "generation")
       \/ \E t \in RespTokens :
             procs' = [procs EXCEPT ![p].pc = "add_assistant_message",
                                    ![p].locals.response = {[tokens |-> t]}]
    /\ UNCHANGED <<convs, docs, chunker, retriever, windower, prompter>>

\* ConversationRepo.add_message(assistant_message) and the response
AddAssistantMessage(p) ==
    /\ procs[p].pc = "add_assistant_message"
    /\ convs' = RepoAddMessage(convs, procs[p].conversation_id,
                    AssistantMessage(p, Val(procs[p].locals.response),
                                     procs[p].locals.retrieved))
    /\ procs' = Finish(procs, p, 200, "none")
    /\ UNCHANGED <<docs, chunker, retriever, windower, prompter>>

\* ---- delete_conversation, upload_document, delete_document ---------------
DeleteConversation(p) ==
    /\ CanStart(p)
    /\ \E cid \in ConversationIds :
          LET q == [procs EXCEPT ![p].kind = "delete_conversation",
                                 ![p].conversation_id = cid]
          IN  IF cid \in DOMAIN convs
              THEN /\ convs' = RepoDelete(convs, cid)
                   /\ procs' = Finish(q, p, 200, "none")
              ELSE /\ convs' = convs
                   /\ procs' = Finish(q, p, 404, "conversation_not_found")
    /\ UNCHANGED <<docs, chunker, retriever, windower, prompter>>

\* variant of DocumentChunks that numbers chunk_index from 1
DocumentChunks_one_based(text) ==
    LET chunks == chunk_text(text, None)
    IN  [i \in 1..Len(chunks) |-> [chunk_id |-> i - 1, text |-> chunks[i],
                                   chunk_index |-> i]]

\* the chunks of an upload: chunk_text with the default chunk size, one
\* record per chunk (the embedding is left to RetrievedIds)
DocumentChunks(text) ==
    LET chunks == chunk_text(text, None)
    IN  [i \in 1..Len(chunks) |-> [chunk_id |-> i - 1, text |-> chunks[i],
                                   chunk_index |-> i - 1]]

\* variant of UploadDocument that chunks and stores the file before it looks
\* at the content type
UploadDocument_validates_last(p) ==
    /\ CanStart(p)
    /\ \E content_type \in ContentTypes, text \in UploadTexts :
          LET document_chunks == DocumentChunks(text)
          IN  /\ docs' = RepoCreate(docs, p,
                            [chunks |-> document_chunks,
                             total_chunks |-> Len(document_chunks)])
              /\ procs' = IF content_type \notin {"text/plain", "application/pdf"}
                          THEN Finish([procs EXCEPT ![p].kind = "upload_rejected"],
                                      p, 400, "validation")
                          ELSE Finish([procs EXCEPT ![p].kind = "upload",
                                                    ![p].document_id = p],
                                      p, 200, "none")
    /\ UNCHANGED <<convs, chunker, retriever, windower, prompter>>

\* upload_document: the content type check, then chunk_text, the chunk
\* records and DocumentRepo.create
UploadDocument(p) ==
    /\ CanStart(p)
    /\ \E content_type \in ContentTypes, text \in UploadTexts :
          IF content_type \notin {"text/plain", "application/pdf"}
          THEN /\ docs' = docs
               /\ procs' = Finish([procs EXCEPT ![p].kind = "upload_rejected"],
                                  p, 400, "validation")
          ELSE LET document_chunks == DocumentChunks(text)
               IN  /\ docs' = RepoCreate(docs, p,
                                 [chunks |-> document_chunks,
                                  total_chunks |-> Len(document_chunks)])
                   /\ procs' = Finish([procs EXCEPT ![p].kind = "upload",
                                                    ![p].document_id = p],
                                      p, 200, "none")
    /\ UNCHANGED <<convs, chunker, retriever, windower, prompter>>

DeleteDocument(p) ==
    /\ CanStart(p)
    /\ \E did \in DocumentIds :
          LET q == [procs EXCEPT ![p].kind = "delete_document", ![p].document_id = did]
          IN  IF did \in DOMAIN docs
              THEN /\ docs' = RepoDelete(docs, did)
                   /\ procs' = Finish(q, p, 200, "none")
              ELSE /\ docs' = docs
                   /\ procs' = Finish(q, p, 404, "document_not_found")
    /\ UNCHANGED <<convs, chunker, retriever, windower, prompter>>

Next ==
    \E p \in Procs :
        \/ CreateStart(p)
        \/ CreateGenerate(p)
        \/ CreateSave(p)
        \/ AddStart(p)
        \/ AddUserMessage(p)
        \/ AddGetDocument(p)
        \/ AddGenerate(p)
        \/ AddAssistantMessage(p)
        \/ DeleteConversation(p)
        \/ UploadDocument(p)
        \/ DeleteDocument(p)

Spec == Init /\ [][Next]_vars

(***************************************************************************)
(* SpecContext: prepare_context on every bounded input                     *)
(***************************************************************************)
WindowContents == {<<"h", "i">>, <<"h", "e", "l", "l", "o">>}
WindowMessages ==
    {UserMessage(1, content) : content \in WindowContents}
        \cup {AssistantMessage(1, [tokens |-> 7], <<>>)}

InitContext ==
    /\ \E messages \in SeqsUpTo(WindowMessages, MaxMessages), max_history \in 0..MaxHistory :
          windower = [pc |-> "call", messages |-> messages, max_history |-> max_history,
                      context |-> <<>>]
    /\ ChunkerIdle
    /\ RetrieverIdle
    /\ PrompterIdle
    /\ StoreIdle

PrepareContext ==
    /\ windower.pc = "call"
    /\ windower' = [windower EXCEPT
                      !.pc = "done",
                      !.context = prepare_context(windower.messages, windower.max_history)]
    /\ UNCHANGED <<chunker, retriever, prompter, convs, docs, procs>>

NextContext == PrepareContext

SpecContext == InitContext /\ [][NextContext]_vars

(***************************************************************************)
(* RAGService.build_rag_prompt.  The prompt is the sequence of its pieces: *)
(* the literal parts of the template, the "Context N:" labels, the chunk   *)
(* texts and the query.                                                    *)
(***************************************************************************)
Literal(text) == [kind |-> "literal", n |-> 0, text |-> text]
Label(n) == [kind |-> "label", n |-> n, text |-> "Context"]
Inserted(text) == [kind |-> "text", n |-> 0, text |-> text]

\* variant of context_label that numbers from 0
context_label_from_zero(i) == Label(i)

\* f"Context {i+1}:\n", i the index enumerate() gives, from 0
context_label(i) == Label(i + 1)

\* separator.join(parts), each part a sequence of pieces
RECURSIVE JoinPieces(_, _)
JoinPieces(parts, separator) ==
    IF parts = <<>> THEN <<>>
    ELSE IF Len(parts) = 1 THEN parts[1]
    ELSE parts[1] \o <<separator>> \o JoinPieces(Tail(parts), separator)

build_rag_prompt(query, retrieved_chunks) ==
    LET context == JoinPieces(
                       [k \in 1..Len(retrieved_chunks) |->
                           <<context_label(k - 1), Inserted(retrieved_chunks[k].text)>>],
                       Literal("\n\n"))
    IN  <<Literal("Based on the following context, answer the question.\n\n")>>
            \o context
            \o <<Literal("\n\nQuestion: "), Inserted(query),
                 Literal("\n\nAnswer based only on the provided context:")>>

(***************************************************************************)
(* SpecPrompt: build_rag_prompt on every bounded input                     *)
(***************************************************************************)
Queries == {"what?", "why?"}
RetrievedChunks ==
    {[text |-> "alpha", chunk_id |-> 0, score |-> 9],
     [text |-> "beta", chunk_id |-> 1, score |-> 5],
     [text |-> "gamma", chunk_id |-> 2, score |-> 5]}

InitPrompt ==
    /\ \E query \in Queries, retrieved_chunks \in SeqsUpTo(RetrievedChunks, MaxRetrieved) :
          prompter = [pc |-> "call", query |-> query,
                      retrieved_chunks |-> retrieved_chunks, prompt |-> <<>>]
    /\ ChunkerIdle
    /\ RetrieverIdle
    /\ WindowerIdle
    /\ StoreIdle

BuildRagPrompt ==
    /\ prompter.pc = "call"
    /\ prompter' = [prompter EXCEPT
                      !.pc = "done",
                      !.prompt = build_rag_prompt(prompter.query, prompter.retrieved_chunks)]
    /\ UNCHANGED <<chunker, retriever, windower, convs, docs, procs>>

NextPrompt == BuildRagPrompt

SpecPrompt == InitPrompt /\ [][NextPrompt]_vars

(***************************************************************************)
(* Claims about the conversation store (Spec)                              *)
(***************************************************************************)
Stored(c) == c \in DOMAIN convs
Done(p) == procs[p].pc = "done"
Positions(c, p, role) ==
    {i \in 1..Len(convs[c].messages) :
        convs[c].messages[i].req = p /\ convs[c].messages[i].role = role}

\* C1: in every reachable state each stored conversation's total_tokens is
\* the sum of the tokens of its stored messages, also while requests are in
\* flight and after a request has failed part-way.
C1_TotalTokensIsSum ==
    \A c \in DOMAIN convs : convs[c].total_tokens = SumTokens(convs[c].messages)

\* C1 witness: an add_message that failed at the generation call after its
\* user message was appended, on a conversation another add_message completed on
C1_Witness ==
    \E p, q \in Procs :
        /\ procs[p].kind = "add" /\ Done(p) /\ procs[p].error = "generation"
        /\ procs[q].kind = "add" /\ Done(q) /\ procs[q].status = 200
        /\ procs[q].conversation_id = procs[p].conversation_id
        /\ Stored(procs[p].conversation_id)
        /\ Len(convs[procs[p].conversation_id].messages) = 5

\* C2: for concurrent add_message requests on the same conversation, with no
\* generation failure and no delete, once the requests have completed the
\* stored conversation holds each request's user message and assistant reply
\* exactly once, and total_tokens is the sum of the message tokens.
C2_NoLostUpdate ==
    \A c \in DOMAIN convs :
        LET adds == {p \in Procs : /\ procs[p].kind = "add"
                                   /\ procs[p].conversation_id = c
                                   /\ Done(p) /\ procs[p].status = 200}
        IN  /\ \A p \in adds :
                  /\ Cardinality(Positions(c, p, "user")) = 1
                  /\ Cardinality(Positions(c, p, "assistant")) = 1
            /\ (\A p \in Procs : procs[p].pc \in {"idle", "done"}) =>
                  /\ convs[c].total_tokens = SumTokens(convs[c].messages)
                  /\ Len(convs[c].messages) >= 2 + 2 * Cardinality(adds)

\* C2 witness: two add_message requests on one conversation that overlapped
\* (the second user message landed between the first request's two appends)
\* and both completed
C2_Witness ==
    \E c \in DOMAIN convs : \E p, q \in Procs :
        /\ p # q
        /\ procs[p].kind = "add" /\ Done(p) /\ procs[p].status = 200
        /\ procs[q].kind = "add" /\ Done(q) /\ procs[q].status = 200
        /\ procs[p].conversation_id = c /\ procs[q].conversation_id = c
        /\ \E i \in Positions(c, p, "user"), j \in Positions(c, q, "user"),
              k \in Positions(c, p, "assistant") : i < j /\ j < k

\* C3: when the generation call fails during add_message, the stored
\* conversation is as it was before the request: none of the request's
\* messages is persisted.
C3_FailedAddLeavesNoMessage ==
    \A p \in Procs :
        (/\ procs[p].kind = "add" /\ Done(p) /\ procs[p].error = "generation"
         /\ Stored(procs[p].conversation_id)) =>
            /\ Positions(procs[p].conversation_id, p, "user") = {}
            /\ Positions(procs[p].conversation_id, p, "assistant") = {}

\* C4: a create_conversation that has not completed successfully, in
\* particular one whose generation call failed, has stored nothing: no
\* conversation carries its id or any of its messages.
C4_FailedCreateStoresNothing ==
    \A p \in Procs :
        (procs[p].kind = "create" /\ ~(Done(p) /\ procs[p].status = 200)) =>
            /\ ~Stored(p)
            /\ \A c \in DOMAIN convs :
                  \A i \in 1..Len(convs[c].messages) : convs[c].messages[i].req # p

\* C4 witness: an open_chat and a rag create_conversation both failed at the
\* generation call while another conversation is stored
C4_Witness ==
    \E p, q \in Procs :
        /\ procs[p].kind = "create" /\ Done(p) /\ procs[p].error = "generation"
        /\ procs[p].document_id = 0
        /\ procs[q].kind = "create" /\ Done(q) /\ procs[q].error = "generation"
        /\ procs[q].document_id # 0
        /\ DOMAIN convs # {}

\* C8: a RAG-mode request against a stored document with zero chunks gets an
\* empty retrieval result and reaches the generation call: it never ends
\* in an error raised by the retrieval.
C8_EmptyDocumentReachesGeneration ==
    \A p \in Procs :
        (/\ procs[p].kind \in {"create", "add"}
         /\ procs[p].document_id \in DOMAIN docs
         /\ docs[procs[p].document_id].total_chunks = 0) =>
            procs[p].error # "retrieval"

(***************************************************************************)
(* Claims about retrieve_relevant_chunks (SpecRetrieve)                    *)
(***************************************************************************)
RetrieveDone == retriever.pc = "done"
NumChunks == Len(retriever.sims)
ResultIds == {retriever.results[i].chunk_id : i \in 1..Len(retriever.results)}

\* C5: for a non-empty chunk set of size n and top_k >= 1 the call returns
\* exactly min(top_k, n) distinct chunks of the input, each with its own
\* similarity as score, they are the highest-scoring chunks, and the scores
\* are in non-increasing order.
C5_TopKHighestDescending ==
    (RetrieveDone /\ NumChunks >= 1 /\ retriever.top_k # None /\ Val(retriever.top_k) >= 1) =>
        LET res == retriever.results
            k == Val(retriever.top_k)
        IN  /\ ~retriever.raised
            /\ Len(res) = Min(k, NumChunks)
            /\ Len(res) <= k
            /\ Cardinality(ResultIds) = Len(res)
            /\ \A i \in 1..Len(res) :
                  /\ res[i].chunk_id \in 0..(NumChunks - 1)
                  /\ res[i].score = retriever.sims[res[i].chunk_id + 1]
            /\ \A i \in 1..(Len(res) - 1) : res[i].score >= res[i + 1].score
            /\ \A c \in 0..(NumChunks - 1) :
                  c \notin ResultIds =>
                      \A i \in 1..Len(res) : retriever.sims[c + 1] <= res[i].score

\* C5 witness: five chunks, top_k = 2, two results returned, a lower-scoring
\* chunk left out
C5_Witness ==
    /\ RetrieveDone
    /\ retriever.sims = <<9, 1, 5, 9, 3>>
    /\ retriever.top_k = Some(2)
    /\ Len(retriever.results) = 2

\* C6: chunks with identical similarity scores appear in the result in their
\* original document order, the earlier-indexed chunk first.
C6_TiesInDocumentOrder ==
    (RetrieveDone /\ ~retriever.raised) =>
        \A i, j \in 1..Len(retriever.results) :
            (i < j /\ retriever.results[i].score = retriever.results[j].score) =>
                retriever.results[i].chunk_id < retriever.results[j].chunk_id

\* C7: with top_k <= 0 the call returns an empty result and raises no error
\* (stated here for the non-empty chunk sets).
C7_NonPositiveTopKEmpty ==
    (RetrieveDone /\ NumChunks >= 1 /\ retriever.top_k # None /\ Val(retriever.top_k) <= 0) =>
        (~retriever.raised /\ retriever.results = <<>>)

(***************************************************************************)
(* Claims about chunk_text (SpecChunk)                                     *)
(***************************************************************************)
ChunkDone == chunker.pc = "done"
ChunkSizeGiven == chunker.chunk_size # None /\ Val(chunker.chunk_size) >= 1

RECURSIVE TokensOf(_)
TokensOf(chunks) ==
    IF chunks = <<>> THEN <<>> ELSE split(chunks[1]) \o TokensOf(Tail(chunks))

\* C9: for chunk_size >= 1 every chunk has length <= chunk_size, except a
\* chunk that is exactly one token whose own length exceeds chunk_size.
C9_ChunkLengthBound ==
    (ChunkDone /\ ChunkSizeGiven) =>
        \A i \in 1..Len(chunker.chunks) :
            LET chunk == chunker.chunks[i]
            IN  Len(chunk) > Val(chunker.chunk_size) => split(chunk) = <<chunk>>

\* C9 witness: a call that produced both an oversized single-token chunk and
\* a chunk within the bound
C9_Witness ==
    /\ ChunkDone
    /\ ChunkSizeGiven
    /\ \E i, j \in 1..Len(chunker.chunks) :
          /\ Len(chunker.chunks[i]) > Val(chunker.chunk_size)
          /\ Len(chunker.chunks[j]) <= Val(chunker.chunk_size)

\* C10: for chunk_size >= 1, joining the chunks with single spaces gives the
\* whitespace-normalized input, and the tokens of the chunks, in order, are
\* the tokens of the input: none dropped, duplicated, reordered or split.
C10_JoinReproducesNormalizedText ==
    (ChunkDone /\ ChunkSizeGiven) =>
        /\ join(chunker.chunks) = join(split(chunker.text))
        /\ TokensOf(chunker.chunks) = split(chunker.text)

\* C10 witness: a text that normalization changes, cut into several chunks
C10_Witness ==
    /\ ChunkDone
    /\ ChunkSizeGiven
    /\ Len(chunker.chunks) >= 2
    /\ join(split(chunker.text)) # chunker.text
    /\ \E i \in 1..Len(chunker.chunks) : Len(split(chunker.chunks[i])) >= 2

\* the length of the text of the first k tokens of a chunk, joined
PrefixLen(chunk, k) == Len(join(SubSeq(split(chunk), 1, k)))

\* C11 as claimed: the current chunk is closed before a token exactly when it
\* is non-empty and its text length plus one separator plus the token's
\* length would exceed chunk_size; a token that still fits is added.
C11_ClosedExactlyWhenTextWouldExceed ==
    (ChunkDone /\ ChunkSizeGiven) =>
        LET size == Val(chunker.chunk_size)
            chunks == chunker.chunks
        IN  /\ \A i \in 1..(Len(chunks) - 1) :
                  Len(chunks[i]) + 1 + Len(split(chunks[i + 1])[1]) > size
            /\ \A i \in 1..Len(chunks) : \A k \in 2..Len(split(chunks[i])) :
                  PrefixLen(chunks[i], k - 1) + 1 + Len(split(chunks[i])[k]) <= size

\* C11 amended: every token is counted with one separator, the last one of
\* the chunk included: the current chunk is closed before a token exactly
\* when it is non-empty and its text length plus one separator plus the
\* token's length plus one more separator would exceed chunk_size.
C11_ClosedExactlyWhenCountWouldExceed ==
    (ChunkDone /\ ChunkSizeGiven) =>
        LET size == Val(chunker.chunk_size)
            chunks == chunker.chunks
        IN  /\ TokensOf(chunks) = split(chunker.text)
            /\ \A i \in 1..(Len(chunks) - 1) :
                  Len(chunks[i]) + 1 + Len(split(chunks[i + 1])[1]) + 1 > size
            /\ \A i \in 1..Len(chunks) : \A k \in 2..Len(split(chunks[i])) :
                  PrefixLen(chunks[i], k - 1) + 1 + Len(split(chunks[i])[k]) + 1 <= size

\* C11 witness: a chunk of two tokens, closed before a token that would have
\* filled it to exactly chunk_size
C11_Witness ==
    /\ ChunkDone
    /\ ChunkSizeGiven
    /\ \E i \in 1..(Len(chunker.chunks) - 1) :
          /\ Len(split(chunker.chunks[i])) = 2
          /\ Len(chunker.chunks[i]) + 1 + Len(split(chunker.chunks[i + 1])[1])
                = Val(chunker.chunk_size)

QuickBrownFoxCall ==
    ChunkDone /\ chunker.text = QuickBrownFox /\ chunker.chunk_size = Some(20)

\* C12 as claimed: chunk_text("the quick brown fox jumps over", 20) returns
\* ["the quick brown", "fox jumps over"].
C12_QuickBrownFoxAsClaimed ==
    QuickBrownFoxCall =>
        chunker.chunks = <<SubSeq(QuickBrownFox, 1, 15), SubSeq(QuickBrownFox, 17, 30)>>

\* C12 amended: chunk_text("the quick brown fox jumps over", 20) returns
\* ["the quick brown fox", "jumps over"], both of length <= 20.
C12_QuickBrownFoxChunks ==
    QuickBrownFoxCall =>
        /\ chunker.chunks = <<SubSeq(QuickBrownFox, 1, 19), SubSeq(QuickBrownFox, 21, 30)>>
        /\ \A i \in 1..Len(chunker.chunks) : Len(chunker.chunks[i]) <= 20

\* C12 witness: the call of the scenario has returned two chunks
C12_Witness == QuickBrownFoxCall /\ Len(chunker.chunks) = 2

\* C13: chunk_text never emits an empty chunk: every chunk holds at least one
\* token, and an empty or whitespace-only text gives the empty sequence, for
\* every chunk size.
C13_NoEmptyChunk ==
    ChunkDone =>
        /\ \A i \in 1..Len(chunker.chunks) :
              chunker.chunks[i] # <<>> /\ Len(split(chunker.chunks[i])) >= 1
        /\ split(chunker.text) = <<>> => chunker.chunks = <<>>

\* C13 witness: a whitespace-only text, not empty, chunked into nothing
C13_Witness ==
    /\ ChunkDone
    /\ Len(chunker.text) >= 2
    /\ \A i \in 1..Len(chunker.text) : chunker.text[i] \in Whitespace
    /\ chunker.chunks = <<>>

(***************************************************************************)
(* Claims about prepare_context (SpecContext)                              *)
(***************************************************************************)
RoleContent(messages) ==
    [i \in 1..Len(messages) |-> [role |-> messages[i].role, content |-> messages[i].content]]

\* C14: for every message sequence and max_history >= 0, prepare_context
\* returns, as role/content pairs in the original order, the last max_history
\* messages when the sequence is longer than max_history and all messages
\* otherwise; the result never has more than max_history entries.
C14_LastMaxHistoryMessages ==
    windower.pc = "done" =>
        LET n == Len(windower.messages)
            h == windower.max_history
        IN  /\ windower.context =
                  RoleContent(IF n > h THEN SubSeq(windower.messages, n - h + 1, n)
                                       ELSE windower.messages)
            /\ n > h => Len(windower.context) <= h

(***************************************************************************)
(* Claims about build_rag_prompt (SpecPrompt)                              *)
(***************************************************************************)
LabelPositions(n) ==
    {j \in 1..Len(prompter.prompt) :
        prompter.prompt[j].kind = "label" /\ prompter.prompt[j].n = n}

\* C15: the i-th retrieved chunk's text stands under the label "Context i",
\* numbered from 1 in the order given, the labels in that order; then come
\* the literal query and the answer-only-from-context instruction; with no
\* retrieved chunk the prompt still holds the query, and no Context label.
C15_NumberedContextsThenQuery ==
    prompter.pc = "done" =>
        LET prompt == prompter.prompt
            chunks == prompter.retrieved_chunks
            last == Len(prompt)
        IN  /\ \A j \in 1..last : prompt[j].kind = "label" => prompt[j].n \in 1..Len(chunks)
            /\ \A i \in 1..Len(chunks) :
                  /\ Cardinality(LabelPositions(i)) = 1
                  /\ \A j \in LabelPositions(i) :
                        /\ prompt[j + 1] = Inserted(chunks[i].text)
                        /\ j + 1 < last - 2
                        /\ \A k \in LabelPositions(i + 1) : j < k
            /\ last >= 3
            /\ prompt[last - 2] = Literal("\n\nQuestion: ")
            /\ prompt[last - 1] = Inserted(prompter.query)
            /\ prompt[last] = Literal("\n\nAnswer based only on the provided context:")

\* C15 witness: three chunks given in an order that is not their position in
\* the document
C15_Witness ==
    /\ prompter.pc = "done"
    /\ Len(prompter.retrieved_chunks) = 3
    /\ prompter.retrieved_chunks[1].chunk_id > prompter.retrieved_chunks[2].chunk_id
    /\ LabelPositions(3) # {}

(***************************************************************************)
(* Claims about validation, conversations and documents (Spec)             *)
(***************************************************************************)
IsPrefix(s, t) == Len(s) <= Len(t) /\ SubSeq(t, 1, Len(s)) = s

\* C16: a request rejected with a validation error (400) is rejected in its
\* first step, before any chunking, retrieval or generation step of it, and
\* that step leaves the document and conversation stores unchanged; an upload
\* with an unsupported content type and a create_conversation in rag mode
\* without document_id are rejected this way (the rag create never gets as
\* far as the document lookup).
C16_ValidationBeforeWork ==
    [][\A p \in Procs :
          /\ (procs'[p].error = "validation" /\ procs[p].error # "validation") =>
                /\ procs[p].pc = "idle"
                /\ procs'[p].pc = "done"
                /\ procs'[p].status = 400
                /\ convs' = convs
                /\ docs' = docs
          /\ (procs'[p].kind = "upload_rejected" /\ procs[p].kind # "upload_rejected") =>
                procs'[p].error = "validation"
          /\ (procs'[p].kind = "create" /\ procs[p].kind # "create"
                /\ procs'[p].document_id = 0 /\ procs'[p].locals.mode # "open_chat") =>
                procs'[p].error = "validation"]_vars

\* C16 witness: an upload and a rag create_conversation both rejected with a
\* validation error while both stores hold something
C16_Witness ==
    /\ DOMAIN convs # {}
    /\ DOMAIN docs # {}
    /\ \E p \in Procs : procs[p].kind = "upload_rejected" /\ procs[p].error = "validation"
    /\ \E p \in Procs : procs[p].kind = "create" /\ procs[p].error = "validation"

\* C17: a stored conversation's messages are append-only: in every step the
\* messages of a conversation stored before and after the step are, before
\* the step, a prefix of what they are after it.
C17_MessagesAppendOnly ==
    [][\A c \in DOMAIN convs \cap DOMAIN convs' :
          IsPrefix(convs[c].messages, convs'[c].messages)]_vars

\* C17 witness: a conversation that has grown past its first two messages by
\* the messages of two different add_message requests
C17_Witness ==
    \E c \in DOMAIN convs :
        /\ Len(convs[c].messages) >= 4
        /\ \E i, j \in 1..Len(convs[c].messages) :
              /\ convs[c].messages[i].req \notin {c, convs[c].messages[j].req}
              /\ convs[c].messages[j].req # c

\* C18: every stored rag conversation has a document_id, and no step changes
\* the mode or the document_id of a conversation that stays stored.
C18_RagHasImmutableDocumentId ==
    [][/\ \A c \in DOMAIN convs' :
             convs'[c].mode = "rag" => convs'[c].document_id # 0
       /\ \A c \in DOMAIN convs \cap DOMAIN convs' :
             /\ convs'[c].mode = convs[c].mode
             /\ convs'[c].document_id = convs[c].document_id]_vars

\* C18 witness: a stored rag conversation that an add_message has extended
C18_Witness ==
    \E c \in DOMAIN convs :
        /\ convs[c].mode = "rag"
        /\ convs[c].document_id # 0
        /\ Len(convs[c].messages) >= 3

\* C19: every stored document has total_chunks = the number of its chunks and
\* its chunk at position i (from 0) carries chunk_index i; a step changes no
\* document that stays stored, and a document leaves the store only in a
\* delete_document step for it; zero-length text gives a document of 0 chunks.
C19_DocumentsWellFormedAndImmutable ==
    [][/\ \A d \in DOMAIN docs' :
             /\ docs'[d].total_chunks = Len(docs'[d].chunks)
             /\ \A i \in 1..Len(docs'[d].chunks) : docs'[d].chunks[i].chunk_index = i - 1
       /\ \A d \in DOMAIN docs \cap DOMAIN docs' : docs'[d] = docs[d]
       /\ \A d \in DOMAIN docs \ DOMAIN docs' :
             \E p \in Procs :
                /\ procs[p].pc = "idle"
                /\ procs'[p].kind = "delete_document"
                /\ procs'[p].document_id = d
       /\ DocumentChunks(<<>>) = <<>>]_vars

\* C19 witness: a stored document of two chunks and a stored document of no
\* chunk, after requests on conversations have run
C19_Witness ==
    /\ \E d \in DOMAIN docs : docs[d].total_chunks = 2
    /\ \E d \in DOMAIN docs : docs[d].total_chunks = 0 /\ docs[d].chunks = <<>>
    /\ \E p \in Procs : procs[p].kind = "create" /\ procs[p].pc = "done"

\* C20: in open_chat mode the history add_message hands to the generation
\* call is the last MAX_HISTORY messages of the conversation as stored at
\* that moment (the call follows the user message's write with no await in
\* between), so it holds every message other requests have persisted.
C20_ContextIsStoredHistory ==
    [][\A p \in Procs :
          (/\ procs[p].pc = "add_user_message"
           /\ procs'[p].pc = "add_generate"
           /\ procs'[p].conversation_id \in DOMAIN convs') =>
              procs'[p].locals.context =
                  prepare_context(convs'[procs'[p].conversation_id].messages, MAX_HISTORY)]_vars

(***************************************************************************)
(* Claims about add_message, delete_conversation and delete_document (Spec)*)
(***************************************************************************)
MessagesOf(c, p) ==
    {i \in 1..Len(convs[c].messages) : convs[c].messages[i].req = p}

\* C21: when add_message returns its success response, the user message and
\* the assistant message of the request are both in the stored conversation,
\* also when a delete_conversation ran between its read and its appends.
C21_SuccessMeansBothStored ==
    [][\A p \in Procs :
          (procs[p].pc = "add_assistant_message" /\ procs'[p].status = 200) =>
              /\ procs'[p].conversation_id \in DOMAIN convs'
              /\ \E i, j \in 1..Len(convs'[procs'[p].conversation_id].messages) :
                    LET messages == convs'[procs'[p].conversation_id].messages
                    IN  /\ messages[i].req = p /\ messages[i].role = "user"
                        /\ messages[j].req = p /\ messages[j].role = "assistant"]_vars

\* C22: in every stored conversation the messages alternate user, assistant,
\* user, assistant, ..., each assistant message right after the user message
\* it answers (looked at when no add_message on the conversation is under
\* way).
C22_StrictAlternation ==
    \A c \in DOMAIN convs :
        (\A p \in Procs : procs[p].conversation_id = c => procs[p].pc \in {"idle", "done"}) =>
        \A i \in 1..Len(convs[c].messages) :
            LET messages == convs[c].messages
            IN  /\ messages[i].role = IF i % 2 = 1 THEN "user" ELSE "assistant"
                /\ messages[i].role = "assistant" =>
                      /\ i > 1
                      /\ messages[IF i > 1 THEN i - 1 ELSE 1].role = "user"
                      /\ messages[IF i > 1 THEN i - 1 ELSE 1].req = messages[i].req

\* C23: an add_message that ended with a not-found error (conversation or
\* document) has left no message of its own in any stored conversation.
C23_NotFoundAddLeavesNoMessage ==
    \A p \in Procs :
        (/\ procs[p].kind = "add"
         /\ Done(p)
         /\ procs[p].error \in {"conversation_not_found", "document_not_found"}) =>
            \A c \in DOMAIN convs : MessagesOf(c, p) = {}

\* C24: once a delete_conversation has removed a conversation id, no
\* conversation is stored under that id again, whatever runs later or was in
\* flight, and every other delete of that id reports not found.
C24_DeletionIsTerminal ==
    \A q \in Procs :
        (/\ procs[q].kind = "delete_conversation"
         /\ Done(q)
         /\ procs[q].status = 200) =>
            /\ procs[q].conversation_id \notin DOMAIN convs
            /\ \A r \in Procs \ {q} :
                  (/\ procs[r].kind = "delete_conversation"
                   /\ Done(r)
                   /\ procs[r].conversation_id = procs[q].conversation_id) =>
                      procs[r].status = 404

\* C24 witness: a conversation deleted while an add_message on it was in
\* flight; the add_message has run its appends to the end and a second
\* delete of the id has answered
C24_Witness ==
    \E q, r, a \in Procs :
        /\ procs[q].kind = "delete_conversation" /\ procs[q].status = 200
        /\ procs[r].kind = "delete_conversation" /\ procs[r].status = 404
        /\ procs[r].conversation_id = procs[q].conversation_id
        /\ procs[a].kind = "add" /\ procs[a].status = 200 /\ a < q
        /\ procs[a].conversation_id = procs[q].conversation_id

====
